---------------------------- MODULE Spec2Model ----------------------------
(* A state-machine model of train.py: the ConvNet / EEGNet shape           *)
(* computations and the __main__ script (device selection, data split,     *)
(* training loop with early stop, parameter save).                         *)
(*                                                                         *)
(* Tensors are modelled by their shapes (sequences of dimensions, Python   *)
(* index i is TLA+ index i+1); a shape of <<>> stands for a raised shape   *)
(* error.  Loss values are integers in units of 1e-5.                      *)
EXTENDS Integers, Sequences, FiniteSets, TLC

\* ------------------------------------------------------------------------
\* Program constants (train.py)
\* ------------------------------------------------------------------------
segment_length == 6
total_epoch == 100
num_classes == 4
batch_size == 128
img_rows == 8
img_cols == 9
num_chan == 4
\* range(6) in the batch input construction (line 141)
NumInputs == 6
\* falx is stored with 5 bands (line 114); bands 1:5 are kept (line 115)
StoredBands == 5
\* 0.005 in units of 1e-5 (line 161)
LossThreshold == 500
\* nn.Linear(..., 512) / nn.LSTM(512, 128) / nn.Linear(128, num_classes)
EmbedDim == 512
LstmHidden == 128

\* ------------------------------------------------------------------------
\* Bounds of the model
\* ------------------------------------------------------------------------
\* the input feature file holds up to MaxTrialBlocks blocks of 183 trials
MaxTrialBlocks == 1
\* spatial dimensions and channel counts tried on ConvNet
MaxDim == 10
MaxChan == 5
\* batch sizes tried on ConvNet.forward
MaxProbeBatch == 2

\* loss.item() values a batch can produce, in units of 1e-5
LossValues == {495, 505}
\* trial counts of the input file: 1 (no training sample is left), 2, and
\* per block one count filling whole batches and one leaving a batch of 1
TrialCounts == {1, 2} \cup UNION {{183 * k, 183 * k + 2} : k \in 1..MaxTrialBlocks}

Err == <<>>

\* ------------------------------------------------------------------------
\* Layers, by shape
\* ------------------------------------------------------------------------
\* nn.Conv2d(in_ch, out_ch, kernel_size=k, padding=p) on x = (N, C, H, W)
Conv2d(x, in_ch, out_ch, k, p) ==
    IF x = Err \/ Len(x) # 4 THEN Err
    ELSE IF x[2] # in_ch THEN Err
    ELSE IF x[3] + 2 * p - k + 1 < 1 \/ x[4] + 2 * p - k + 1 < 1 THEN Err
    ELSE <<x[1], out_ch, x[3] + 2 * p - k + 1, x[4] + 2 * p - k + 1>>

\* nn.MaxPool2d(2, 2) on x = (N, C, H, W)
MaxPool2d(x) ==
    IF x = Err \/ Len(x) # 4 THEN Err
    ELSE IF (x[3] - 2) \div 2 + 1 < 1 \/ (x[4] - 2) \div 2 + 1 < 1 THEN Err
    ELSE <<x[1], x[2], (x[3] - 2) \div 2 + 1, (x[4] - 2) \div 2 + 1>>

\* nn.Flatten() on x = (N, C, H, W)
Flatten(x) ==
    IF x = Err \/ Len(x) # 4 THEN Err ELSE <<x[1], x[2] * x[3] * x[4]>>

\* nn.Linear(in_f, out_f) on x = (N, F)
Linear(x, in_f, out_f) ==
    IF x = Err \/ Len(x) # 2 THEN Err
    ELSE IF x[2] # in_f THEN Err
    ELSE <<x[1], out_f>>

\* torch.relu keeps the shape
Relu(x) == x

\* the four convolutions of ConvNet.__init__; dim = (rows, cols, chan)
conv1(x, dim) == Conv2d(x, dim[3], 64, 5, 2)
conv2(x) == Conv2d(x, 64, 128, 4, 1)
conv3(x) == Conv2d(x, 128, 256, 4, 1)
conv4(x) == Conv2d(x, 256, 64, 1, 0)

\* the value of an expression computed once: Only({e})
Only(S) == CHOOSE v \in S : TRUE

\* a probe that forgets the pooling layer
get_conv_output_size_nopool(dim) ==
    Only({IF x = Err THEN -1 ELSE x[2] :
          x \in {Flatten(x4) :
          x4 \in {conv4(x3) :
          x3 \in {conv3(x2) :
          x2 \in {conv2(x1) :
          x1 \in {conv1(dummy_input, dim) :
          dummy_input \in {<<1, dim[3], dim[1], dim[2]>>}}}}}}})

\* ConvNet._get_conv_output_size: conv1..conv4, pool, flatten on a dummy input
\* of shape (1, input_dim[2], input_dim[0], input_dim[1]); -1 when the probe
\* raises
get_conv_output_size(dim) ==
    Only({IF x = Err THEN -1 ELSE x[2] :
          x \in {Flatten(x5) :
          x5 \in {MaxPool2d(x4) :
          x4 \in {conv4(x3) :
          x3 \in {conv3(x2) :
          x2 \in {conv2(x1) :
          x1 \in {conv1(dummy_input, dim) :
          dummy_input \in {<<1, dim[3], dim[1], dim[2]>>}}}}}}}})

\* ConvNet.forward up to flatten, for a network built for dim
ConvFeatures(x, dim) ==
    Only({Flatten(x5) :
          x5 \in {MaxPool2d(x4) :
          x4 \in {Relu(conv4(x3)) :
          x3 \in {Relu(conv3(x2)) :
          x2 \in {Relu(conv2(x1)) :
          x1 \in {Relu(conv1(x0, dim)) : x0 \in {x}}}}}}})

\* ConvNet.forward: dense1 has in_features in_f; unsqueeze(1) at the end
ConvNet_forward(x, dim, in_f) ==
    Only({IF y = Err THEN Err ELSE <<y[1], 1, y[2]>> :
          y \in {Relu(Linear(f, in_f, EmbedDim)) : f \in {ConvFeatures(x, dim)}}})

\* the sum of the entries of a sequence
SumSeq(s) ==
    LET partial[n \in 0..Len(s)] == IF n = 0 THEN 0 ELSE partial[n - 1] + s[n]
    IN  partial[Len(s)]

\* torch.cat(xs, dim=0) of 3-d shapes
Cat0(xs) ==
    IF xs = <<>> \/ \E i \in 1..Len(xs) : xs[i] = Err \/ Len(xs[i]) # 3 THEN Err
    ELSE IF \E i \in 1..Len(xs) : xs[i][2] # xs[1][2] \/ xs[i][3] # xs[1][3] THEN Err
    ELSE <<SumSeq([i \in 1..Len(xs) |-> xs[i][1]]), xs[1][2], xs[1][3]>>

\* torch.cat(xs, dim=1) of 3-d shapes
Cat1(xs) ==
    IF xs = <<>> \/ \E i \in 1..Len(xs) : xs[i] = Err \/ Len(xs[i]) # 3 THEN Err
    ELSE IF \E i \in 1..Len(xs) : xs[i][1] # xs[1][1] \/ xs[i][3] # xs[1][3] THEN Err
    ELSE <<xs[1][1], SumSeq([i \in 1..Len(xs) |-> xs[i][2]]), xs[1][3]>>

\* EEGNet.forward concatenating the embeddings along the batch dimension
EEGNet_lstm_input_dim0(x, dim, in_f) ==
    Only({Cat0(e) : e \in {[i \in 1..Len(x) |-> ConvNet_forward(x[i], dim, in_f)]}})

\* EEGNet.forward, line 78: the tensor handed to self.lstm
EEGNet_lstm_input(x, dim, in_f) ==
    Only({Cat1(e) : e \in {[i \in 1..Len(x) |-> ConvNet_forward(x[i], dim, in_f)]}})

\* nn.LSTM(512, 128, batch_first=True) on (N, T, 512), then h_n[-1]: (N, 128)
LstmLastHidden(x) ==
    IF x = Err \/ Len(x) # 3 THEN Err
    ELSE IF x[3] # EmbedDim \/ x[2] < 1 THEN Err
    ELSE <<x[1], LstmHidden>>

\* EEGNet.forward: the class scores (N, num_classes)
EEGNet_forward(x, dim, in_f) ==
    Only({Linear(h, LstmHidden, num_classes) :
          h \in {LstmLastHidden(s) : s \in {EEGNet_lstm_input(x, dim, in_f)}}})

\* batch_x[:, i].permute(0, 3, 1, 2) for batch_x = (N, S, H, W, C); i is 0-based
SegmentInput(batch_x, i) ==
    IF i >= batch_x[2] THEN Err
    ELSE <<batch_x[1], batch_x[5], batch_x[3], batch_x[4]>>

\* line 141: the list of per-segment inputs
BatchInputs(batch_x) == [i \in 1..NumInputs |-> SegmentInput(batch_x, i - 1)]

\* ------------------------------------------------------------------------
\* The script's state
\* ------------------------------------------------------------------------
VARIABLES
    pc,              \* position in the script
    cuda_available, mps_available, device,
    n_trials,        \* trials in the input feature file
    one_falx,        \* shape of the feature array after reshape and band cut
    n_train, n_test, \* sizes of the split
    writes,          \* files written so far, in order
    input_dim, dense_in,   \* ConvNet: constructor argument, dense1.in_features
    epoch, batch,    \* epoch index (0-based; -1 before the loop), batch index
    inputs,          \* shapes of the per-segment inputs of the current batch
    lstm_in,         \* shape handed to the LSTM by the last forward pass
    loss,            \* loss of the current batch (-1 when none)
    running_loss,
    batch_losses,    \* history: the losses computed in the current epoch
    grads,           \* backward passes accumulated in .grad since zero_grad
    opt_steps, scaler_updates,   \* scaler.step / scaler.update calls so far
    console,         \* epoch numbers of the report lines printed so far
    console_loss,    \* loss of the last report line, in units of 1e-4
    early_stop,      \* the break of line 162 was taken
    conv_x, conv_flat, conv_out  \* ConvNet alone: input, flattened, output

vars == <<pc, cuda_available, mps_available, device, n_trials, one_falx,
          n_train, n_test, writes, input_dim, dense_in, epoch, batch, inputs,
          lstm_in, loss, running_loss, batch_losses, grads, opt_steps,
          scaler_updates, console, console_loss, early_stop,
          conv_x, conv_flat, conv_out>>

deviceVars == <<cuda_available, mps_available, device>>
dataVars == <<n_trials, one_falx, n_train, n_test>>
modelVars == <<input_dim, dense_in>>
convVars == <<conv_x, conv_flat, conv_out>>
loopVars == <<epoch, batch, inputs, lstm_in, loss, running_loss, batch_losses,
              grads, opt_steps, scaler_updates, console, console_loss, early_stop>>

\* len(train_loader): DataLoader(dataset, batch_size=batch_size), drop_last off
LenTrainLoader == (n_train + batch_size - 1) \div batch_size

\* the size of batch b (0-based) of the epoch
BatchLen(b) ==
    IF n_train - b * batch_size < batch_size THEN n_train - b * batch_size
    ELSE batch_size

\* f"{running_loss / len(train_loader):.4f}": the printed values, in units
\* of 1e-4, of r / nb (r in units of 1e-5); an exact tie in the decimal model
\* can print either neighbour, the binary value deciding
Fmt4(r, nb) ==
    LET q == r \div (10 * nb)
        rem == r % (10 * nb)
    IN  IF 2 * rem < 10 * nb THEN {q}
        ELSE IF 2 * rem > 10 * nb THEN {q + 1}
        ELSE {q, q + 1}

\* an early-stop test that also stops at the threshold itself
EarlyStopCondition_le(r, nb) == r <= LossThreshold * nb

\* line 161: running_loss / len(train_loader) < 0.005
EarlyStopCondition(r, nb) == r < LossThreshold * nb

Init ==
    /\ pc = "select_device"
    /\ cuda_available \in BOOLEAN
    /\ mps_available \in BOOLEAN
    /\ device = "none"
    /\ n_trials \in TrialCounts
    /\ one_falx = Err
    /\ n_train = 0 /\ n_test = 0
    /\ writes = <<>>
    /\ input_dim = <<0, 0, 0>> /\ dense_in = -1
    /\ epoch = -1 /\ batch = 0
    /\ inputs = <<>> /\ lstm_in = Err
    /\ loss = -1 /\ running_loss = 0 /\ batch_losses = <<>>
    /\ grads = 0 /\ opt_steps = 0 /\ scaler_updates = 0
    /\ console = <<>> /\ console_loss = -1
    /\ early_stop = FALSE
    /\ conv_x = Err /\ conv_flat = Err /\ conv_out = Err

\* a selection that asks for mps first
SelectDevice_mps_first ==
    /\ pc = "select_device"
    /\ device' = IF mps_available THEN "mps"
                 ELSE IF cuda_available THEN "cuda:0" ELSE "cpu"
    /\ pc' = "load"
    /\ UNCHANGED <<cuda_available, mps_available, dataVars, writes, modelVars,
                   loopVars, convVars>>

\* lines 94-102
SelectDevice ==
    /\ pc = "select_device"
    /\ device' = IF cuda_available THEN "cuda:0"
                 ELSE IF mps_available THEN "mps" ELSE "cpu"
    /\ pc' = "load"
    /\ UNCHANGED <<cuda_available, mps_available, dataVars, writes, modelVars,
                   loopVars, convVars>>

\* lines 105-115: load, reshape to (-1, segment_length, rows, cols, 5), keep
\* bands 1:5
LoadData ==
    /\ pc = "load"
    /\ one_falx' = <<n_trials, segment_length, img_rows, img_cols, StoredBands - 1>>
    /\ pc' = "split"
    /\ UNCHANGED <<deviceVars, n_trials, n_train, n_test, writes, modelVars,
                   loopVars, convVars>>

\* lines 117-119: train_test_split(test_size=0.3): n_test = ceil(0.3 n), the
\* rest trains; an empty training set raises
Split ==
    /\ pc = "split"
    /\ LET nt == (3 * one_falx[1] + 9) \div 10
       IN  IF one_falx[1] - nt < 1
           THEN pc' = "aborted" /\ UNCHANGED <<n_train, n_test>>
           ELSE pc' = "save_x_test" /\ n_test' = nt /\ n_train' = one_falx[1] - nt
    /\ UNCHANGED <<deviceVars, n_trials, one_falx, writes, modelVars, loopVars, convVars>>

\* line 120
SaveXTest ==
    /\ pc = "save_x_test"
    /\ writes' = Append(writes, "x_test.npy")
    /\ pc' = "save_y_test"
    /\ UNCHANGED <<deviceVars, dataVars, modelVars, loopVars, convVars>>

\* a script that trains before it saves the label file
SaveYTest_late ==
    /\ pc = "save_y_test"
    /\ pc' = "build_model"
    /\ UNCHANGED <<deviceVars, dataVars, writes, modelVars, loopVars, convVars>>

\* line 121
SaveYTest ==
    /\ pc = "save_y_test"
    /\ writes' = Append(writes, "y_test.npy")
    /\ pc' = "build_model"
    /\ UNCHANGED <<deviceVars, dataVars, modelVars, loopVars, convVars>>

\* lines 124-135: EEGNet((img_rows, img_cols, 4)) and the optimizer objects
BuildModel ==
    /\ pc = "build_model"
    /\ input_dim' = <<img_rows, img_cols, num_chan>>
    /\ dense_in' = get_conv_output_size(<<img_rows, img_cols, num_chan>>)
    /\ pc' = IF get_conv_output_size(<<img_rows, img_cols, num_chan>>) < 1
             THEN "aborted" ELSE "for_epoch"
    /\ UNCHANGED <<deviceVars, dataVars, writes, loopVars, convVars>>

\* a loop header that keeps the running loss of the epoch before
ForEpoch_no_reset ==
    /\ pc = "for_epoch"
    /\ IF epoch + 1 < total_epoch
       THEN /\ epoch' = epoch + 1
            /\ batch' = 0
            /\ batch_losses' = <<>>
            /\ pc' = "fetch"
            /\ UNCHANGED running_loss
       ELSE /\ pc' = "stopped"
            /\ UNCHANGED <<epoch, batch, running_loss, batch_losses>>
    /\ UNCHANGED <<deviceVars, dataVars, writes, modelVars, inputs, lstm_in, loss,
                   grads, opt_steps, scaler_updates, console, console_loss,
                   early_stop, convVars>>

\* lines 136-138: for epoch in range(total_epoch), running_loss = 0.0
ForEpoch ==
    /\ pc = "for_epoch"
    /\ IF epoch + 1 < total_epoch
       THEN /\ epoch' = epoch + 1
            /\ running_loss' = 0
            /\ batch' = 0
            /\ batch_losses' = <<>>
            /\ pc' = "fetch"
       ELSE /\ pc' = "stopped"
            /\ UNCHANGED <<epoch, batch, running_loss, batch_losses>>
    /\ UNCHANGED <<deviceVars, dataVars, writes, modelVars, inputs, lstm_in, loss,
                   grads, opt_steps, scaler_updates, console, console_loss,
                   early_stop, convVars>>

\* lines 139-142: the next batch of the loader and its per-segment inputs, or
\* the end of the epoch
Fetch ==
    /\ pc = "fetch"
    /\ IF batch < LenTrainLoader
       THEN /\ inputs' = BatchInputs(<<BatchLen(batch), one_falx[2], one_falx[3],
                                       one_falx[4], one_falx[5]>>)
            /\ pc' = IF \E i \in 1..NumInputs :
                            SegmentInput(<<BatchLen(batch), one_falx[2], one_falx[3],
                                           one_falx[4], one_falx[5]>>, i - 1) = Err
                     THEN "aborted" ELSE "zero_grad"
       ELSE /\ pc' = "report"
            /\ UNCHANGED inputs
    /\ UNCHANGED <<deviceVars, dataVars, writes, modelVars, epoch, batch, lstm_in,
                   loss, running_loss, batch_losses, grads, opt_steps,
                   scaler_updates, console, console_loss, early_stop, convVars>>

\* a batch procedure that leaves the gradients of the batch before in place
ZeroGrad_skipped ==
    /\ pc = "zero_grad"
    /\ pc' = "forward"
    /\ UNCHANGED <<deviceVars, dataVars, writes, modelVars, epoch, batch, inputs,
                   lstm_in, loss, running_loss, batch_losses, grads, opt_steps,
                   scaler_updates, console, console_loss, early_stop, convVars>>

\* line 144: optimizer.zero_grad()
ZeroGrad ==
    /\ pc = "zero_grad"
    /\ grads' = 0
    /\ pc' = "forward"
    /\ UNCHANGED <<deviceVars, dataVars, writes, modelVars, epoch, batch, inputs,
                   lstm_in, loss, running_loss, batch_losses, opt_steps,
                   scaler_updates, console, console_loss, early_stop, convVars>>

\* lines 147-149: outputs = model(inputs); loss = criterion(outputs, labels);
\* a shape the layers or the criterion reject raises
Forward ==
    /\ pc = "forward"
    /\ lstm_in' = EEGNet_lstm_input(inputs, input_dim, dense_in)
    /\ IF EEGNet_forward(inputs, input_dim, dense_in) # <<BatchLen(batch), num_classes>>
       THEN /\ pc' = "aborted"
            /\ UNCHANGED <<loss, batch_losses>>
       ELSE /\ \E l \in LossValues :
                 /\ loss' = l
                 /\ batch_losses' = Append(batch_losses, l)
            /\ pc' = "backward"
    /\ UNCHANGED <<deviceVars, dataVars, writes, modelVars, epoch, batch, inputs,
                   running_loss, grads, opt_steps, scaler_updates, console,
                   console_loss, early_stop, convVars>>

\* line 151: scaler.scale(loss).backward() adds to the stored gradients
Backward ==
    /\ pc = "backward"
    /\ grads' = grads + 1
    /\ pc' = "step"
    /\ UNCHANGED <<deviceVars, dataVars, writes, modelVars, epoch, batch, inputs,
                   lstm_in, loss, running_loss, batch_losses, opt_steps,
                   scaler_updates, console, console_loss, early_stop, convVars>>

\* line 152: scaler.step(optimizer)
OptimizerStep ==
    /\ pc = "step"
    /\ opt_steps' = opt_steps + 1
    /\ pc' = "update"
    /\ UNCHANGED <<deviceVars, dataVars, writes, modelVars, epoch, batch, inputs,
                   lstm_in, loss, running_loss, batch_losses, grads,
                   scaler_updates, console, console_loss, early_stop, convVars>>

\* line 153: scaler.update()
ScalerUpdate ==
    /\ pc = "update"
    /\ scaler_updates' = scaler_updates + 1
    /\ pc' = "accumulate"
    /\ UNCHANGED <<deviceVars, dataVars, writes, modelVars, epoch, batch, inputs,
                   lstm_in, loss, running_loss, batch_losses, grads, opt_steps,
                   console, console_loss, early_stop, convVars>>

\* line 155: running_loss += loss.item(), and on to the next batch
Accumulate ==
    /\ pc = "accumulate"
    /\ running_loss' = running_loss + loss
    /\ batch' = batch + 1
    /\ loss' = -1
    /\ pc' = "fetch"
    /\ UNCHANGED <<deviceVars, dataVars, writes, modelVars, epoch, inputs, lstm_in,
                   batch_losses, grads, opt_steps, scaler_updates, console,
                   console_loss, early_stop, convVars>>

\* lines 157-160: the report line of the epoch; an empty loader divides by 0
Report ==
    /\ pc = "report"
    /\ IF LenTrainLoader = 0
       THEN pc' = "aborted" /\ UNCHANGED <<console, console_loss>>
       ELSE /\ console' = Append(console, epoch + 1)
            /\ console_loss' \in Fmt4(running_loss, LenTrainLoader)
            /\ pc' = "check"
    /\ UNCHANGED <<deviceVars, dataVars, writes, modelVars, epoch, batch, inputs,
                   lstm_in, loss, running_loss, batch_losses, grads, opt_steps,
                   scaler_updates, early_stop, convVars>>

\* an early-stop check whose break was replaced by going on
Check_no_break ==
    /\ pc = "check"
    /\ pc' = "for_epoch"
    /\ UNCHANGED <<deviceVars, dataVars, writes, modelVars, loopVars, convVars>>

\* lines 161-162: the early-stop check
Check ==
    /\ pc = "check"
    /\ IF EarlyStopCondition(running_loss, LenTrainLoader)
       THEN pc' = "stopped" /\ early_stop' = TRUE
       ELSE pc' = "for_epoch" /\ UNCHANGED early_stop
    /\ UNCHANGED <<deviceVars, dataVars, writes, modelVars, epoch, batch, inputs,
                   lstm_in, loss, running_loss, batch_losses, grads, opt_steps,
                   scaler_updates, console, console_loss, convVars>>

\* an exception handler that saves the parameters of an aborted run
Raise_then_save ==
    /\ pc \in {"fetch", "zero_grad", "forward", "backward", "step", "update",
               "accumulate"}
    /\ writes' = Append(writes, "model.pt")
    /\ pc' = "aborted"
    /\ UNCHANGED <<deviceVars, dataVars, modelVars, loopVars, convVars>>

\* an exception (out of memory, a failing loader worker, ...) raised by a
\* statement of the batch loop, lines 139-155: nothing catches it
Raise ==
    /\ pc \in {"fetch", "zero_grad", "forward", "backward", "step", "update",
               "accumulate"}
    /\ pc' = "aborted"
    /\ UNCHANGED <<deviceVars, dataVars, writes, modelVars, loopVars, convVars>>

\* a script that saves the parameters after every epoch as well
Save_again ==
    /\ pc = "stopped"
    /\ writes' = writes \o <<"model.pt", "model.pt">>
    /\ pc' = "persisted"
    /\ UNCHANGED <<deviceVars, dataVars, modelVars, loopVars, convVars>>

\* line 164: torch.save(model.state_dict(), './results/model.pt')
Save ==
    /\ pc = "stopped"
    /\ writes' = Append(writes, "model.pt")
    /\ pc' = "persisted"
    /\ UNCHANGED <<deviceVars, dataVars, modelVars, loopVars, convVars>>

\* the statements of the script, in order, without the exception
Step ==
    \/ SelectDevice \/ LoadData \/ Split \/ SaveXTest \/ SaveYTest \/ BuildModel
    \/ ForEpoch \/ Fetch \/ ZeroGrad \/ Forward \/ Backward \/ OptimizerStep
    \/ ScalerUpdate \/ Accumulate \/ Report \/ Check \/ Save

Next == Step \/ Raise

Spec == Init /\ [][Next]_vars

\* the interpreter runs the next statement whenever there is one
FairSpec == Spec /\ WF_vars(Step)

\* ------------------------------------------------------------------------
\* ConvNet alone: construction for any input_dim, then forward passes
\* ------------------------------------------------------------------------
ConvInit ==
    /\ pc = "conv_new"
    /\ input_dim \in (1..MaxDim) \X (1..MaxDim) \X (1..MaxChan)
    /\ dense_in = -1
    /\ conv_x = Err /\ conv_flat = Err /\ conv_out = Err
    /\ cuda_available = FALSE /\ mps_available = FALSE /\ device = "none"
    /\ n_trials = 0 /\ one_falx = Err /\ n_train = 0 /\ n_test = 0
    /\ writes = <<>>
    /\ epoch = -1 /\ batch = 0
    /\ inputs = <<>> /\ lstm_in = Err
    /\ loss = -1 /\ running_loss = 0 /\ batch_losses = <<>>
    /\ grads = 0 /\ opt_steps = 0 /\ scaler_updates = 0
    /\ console = <<>> /\ console_loss = -1
    /\ early_stop = FALSE

\* ConvNet.__init__: dense1 = nn.Linear(self._get_conv_output_size(input_dim), 512)
ConvConstruct ==
    /\ pc = "conv_new"
    /\ dense_in' = get_conv_output_size(input_dim)
    /\ pc' = IF get_conv_output_size(input_dim) < 1 THEN "conv_failed" ELSE "conv_ready"
    /\ UNCHANGED <<deviceVars, dataVars, writes, input_dim, loopVars, convVars>>

\* ConvNet.forward on a batch of n inputs of the constructor's dimensions
ConvCall ==
    /\ pc \in {"conv_ready", "conv_done"}
    /\ \E n \in 1..MaxProbeBatch :
         LET x == <<n, input_dim[3], input_dim[1], input_dim[2]>>
         IN  /\ conv_x' = x
             /\ conv_flat' = ConvFeatures(x, input_dim)
             /\ conv_out' = ConvNet_forward(x, input_dim, dense_in)
             /\ pc' = IF ConvNet_forward(x, input_dim, dense_in) = Err
                      THEN "conv_error" ELSE "conv_done"
    /\ UNCHANGED <<deviceVars, dataVars, writes, modelVars, loopVars>>

ConvNext == ConvConstruct \/ ConvCall

ConvSpec == ConvInit /\ [][ConvNext]_vars

\* ------------------------------------------------------------------------
\* Properties
\* ------------------------------------------------------------------------
InBatch == pc \in {"zero_grad", "forward", "backward", "step", "update", "accumulate"}
AfterForward == pc \in {"backward", "step", "update", "accumulate"}
EpochDone == pc \in {"check", "stopped", "persisted"} \/ (pc = "for_epoch" /\ epoch >= 0)
ModelSaves == Cardinality({i \in 1..Len(writes) : writes[i] = "model.pt"})
\* the mean of the losses computed in the epoch is below 0.005
MeanBelowThreshold == SumSeq(batch_losses) < LossThreshold * Len(batch_losses)
\* batches fully processed so far
BatchesDone == IF epoch < 0 THEN 0 ELSE epoch * LenTrainLoader + batch

\* C1: the loop is left before the epoch budget is exhausted exactly when the
\* mean loss of the epoch just completed is below 0.005: the check of an
\* epoch leaves the loop iff its mean is below the threshold, a run that
\* stopped did so by early stop iff its last epoch's mean was below the
\* threshold, and a run that stopped otherwise ran all total_epoch epochs.
C1_EarlyStopIff ==
    /\ [][pc = "check" => (pc' = "stopped" <=> MeanBelowThreshold)]_vars
    /\ [][pc = "check" /\ ~MeanBelowThreshold => pc' = "for_epoch" /\ ~early_stop']_vars
    /\ [](pc \in {"stopped", "persisted"} => (early_stop <=> MeanBelowThreshold))
    /\ [](pc \in {"stopped", "persisted"} /\ ~early_stop => Len(console) = total_epoch)
    /\ [](early_stop => pc \in {"stopped", "persisted"})

C1_Witness == pc = "stopped" /\ early_stop /\ epoch = 1 /\ LenTrainLoader = 2

\* C2: from stopped the script always goes on to persisted, by the save and
\* nothing else; the parameter file is written at most once, it is written
\* exactly in persisted, and that is after the last epoch (early stop, or
\* total_epoch epochs run), never during training or after an epoch's report.
C2_StoppedThenPersistedOnce ==
    /\ (pc = "stopped") ~> (pc = "persisted")
    /\ [][pc = "stopped" => pc' = "persisted" /\ ModelSaves' = 1]_vars
    /\ [](ModelSaves <= 1)
    /\ [](ModelSaves = 1 <=> pc = "persisted")
    /\ [](pc = "persisted" => /\ Len(console) = epoch + 1
                             /\ Len(batch_losses) = LenTrainLoader
                             /\ (early_stop \/ epoch + 1 = total_epoch))

C2_Witness == pc = "persisted" /\ ~early_stop /\ writes[Len(writes)] = "model.pt"

\* C3: a run in which an exception was raised stays aborted, is never
\* resumed, and never has the parameter file written.
C3_AbortNeverPersists ==
    /\ [](pc = "aborted" => ModelSaves = 0)
    /\ [][pc = "aborted" => pc' = "aborted" /\ writes' = writes]_vars

C3_Witness == pc = "aborted" /\ epoch = 1 /\ batch = 1 /\ loss # -1

\* C4: the sequence handed to the LSTM has segment_length steps for every
\* batch, whatever the batch size, and no batch is rejected for its shape.
C4_LstmSeqLen ==
    /\ lstm_in # Err => lstm_in[2] = segment_length
    /\ AfterForward => lstm_in = <<BatchLen(batch), segment_length, EmbedDim>>

C4_Witness ==
    /\ pc = "backward" /\ batch = 1 /\ BatchLen(batch) = 1
    /\ lstm_in = <<1, 6, 512>>

\* C5: once the training loop has been entered, the test features and then
\* the test labels have been written, also in a run that aborts later.
C5_TestSplitSavedFirst ==
    (epoch >= 0 \/ pc \in {"for_epoch", "stopped", "persisted"}) =>
        /\ Len(writes) >= 2
        /\ writes[1] = "x_test.npy"
        /\ writes[2] = "y_test.npy"

C5_Witness == pc = "aborted" /\ epoch = 0 /\ writes = <<"x_test.npy", "y_test.npy">>

\* C6: the report lines are numbered 1, 2, ... without gaps, there is one
\* per epoch run, and the line of an epoch shows the mean of the losses of
\* all its batches, to four decimals.
C6_OneLinePerEpoch ==
    /\ \A i \in 1..Len(console) : console[i] = i
    /\ (pc \in {"fetch", "report"} \/ InBatch) => Len(console) = epoch
    /\ EpochDone => /\ Len(console) = epoch + 1
                    /\ Len(batch_losses) = LenTrainLoader
                    /\ 2 * (10 * LenTrainLoader * console_loss - SumSeq(batch_losses))
                           <= 10 * LenTrainLoader
                    /\ 2 * (SumSeq(batch_losses) - 10 * LenTrainLoader * console_loss)
                           <= 10 * LenTrainLoader

C6_Witness == pc = "persisted" /\ early_stop /\ console = <<1, 2, 3>> /\ LenTrainLoader = 2

\* C7: a device is always chosen: cuda when available, mps exactly when cuda
\* is not available and mps is, cpu exactly when neither is.
C7_DevicePreference ==
    pc # "select_device" =>
        /\ device \in {"cuda:0", "mps", "cpu"}
        /\ (device = "cuda:0" <=> cuda_available)
        /\ (device = "mps" <=> (~cuda_available /\ mps_available))
        /\ (device = "cpu" <=> (~cuda_available /\ ~mps_available))

C7_Witness == pc = "load" /\ device = "cuda:0" /\ cuda_available /\ mps_available

\* C8: for rows, cols >= 4 construction succeeds and the probed size is
\* 64 * floor((rows-2)/2) * floor((cols-2)/2); a forward pass on an input of
\* those dimensions flattens to exactly that size and is accepted by dense1;
\* construction fails only for smaller dimensions.
C8_ProbeMatchesForward ==
    /\ pc \in {"conv_ready", "conv_done", "conv_error"} =>
          /\ input_dim[1] >= 4 /\ input_dim[2] >= 4
          /\ dense_in = 64 * ((input_dim[1] - 2) \div 2) * ((input_dim[2] - 2) \div 2)
    /\ pc = "conv_failed" => (input_dim[1] < 4 \/ input_dim[2] < 4)
    /\ pc # "conv_error"
    /\ pc = "conv_done" => /\ conv_flat = <<conv_x[1], dense_in>>
                           /\ conv_out = <<conv_x[1], 1, EmbedDim>>

C8_Witness ==
    /\ pc = "conv_done" /\ input_dim = <<8, 9, 4>> /\ conv_flat = <<2, 576>>

\* C9: after an epoch the loop goes back to training exactly when the epoch
\* index has not reached total_epoch and the early-stop condition is false;
\* a run that stopped ran between 1 and total_epoch epochs; and every run
\* ends persisted unless it raised.
C9_LoopTerminates ==
    /\ [][pc = "check" => (pc' = "for_epoch" <=> ~MeanBelowThreshold)]_vars
    /\ [][pc = "for_epoch" /\ epoch >= 0 =>
              (pc' = "fetch" /\ epoch' = epoch + 1 <=> epoch + 1 < total_epoch)]_vars
    /\ [](pc \in {"stopped", "persisted"} =>
              /\ Len(console) = epoch + 1
              /\ 1 <= epoch + 1 /\ epoch + 1 <= total_epoch)
    /\ [](epoch < total_epoch)
    /\ <>(pc = "persisted" \/ pc = "aborted")

C9_Witness == pc = "persisted" /\ Len(console) = total_epoch /\ ~early_stop

\* C10: in every batch the gradients are zero when the backward pass starts
\* and hold exactly that pass when the optimizer steps; optimizer steps and
\* scaler updates happen once per batch, the update after the step; the
\* batch's loss joins running_loss only after them.
C10_BatchStepOrder ==
    /\ pc \in {"forward", "backward"} => grads = 0
    /\ pc \in {"step", "update", "accumulate"} => grads = 1
    /\ (pc \in {"fetch", "report", "check", "for_epoch", "stopped", "persisted"}
            \/ InBatch) =>
          /\ opt_steps = BatchesDone
                + (IF pc \in {"update", "accumulate"} THEN 1 ELSE 0)
          /\ scaler_updates = BatchesDone
                + (IF pc = "accumulate" THEN 1 ELSE 0)
          /\ Len(batch_losses) = (IF epoch < 0 THEN 0 ELSE batch)
                + (IF AfterForward THEN 1 ELSE 0)
          /\ running_loss = SumSeq(SubSeq(batch_losses, 1, batch))

C10_Witness == pc = "accumulate" /\ epoch = 1 /\ batch = 1 /\ opt_steps = 4

=============================================================================
